---- MODULE Spec2Model ----
(***************************************************************************)
(* Model of the localization action: the extraction pass over a positioned *)
(* document tree (upload.js), the patch applier (utils.js) and the action  *)
(* entry point (index.js).  Text values are sequences of one-character     *)
(* strings; offsets are 0-based as in the source, sequences are 1-based.   *)
(***************************************************************************)
EXTENDS Integers, Sequences, FiniteSets, TLC

VARIABLES content, given, changes, result, idx, apc, thrown

VARIABLES source, ast, strings, wpc, failedAt

VARIABLES action, filePaths, longName, mpc, fileIdx, data, calls, failures, status

applyVars == <<content, given, changes, result, idx, apc, thrown>>

walkVars == <<source, ast, strings, wpc, failedAt>>

mainVars == <<action, filePaths, longName, mpc, fileIdx, data, calls, failures, status>>

vars == <<applyVars, walkVars, mainVars>>

(***************************************************************************)
(* Text helpers                                                            *)
(***************************************************************************)

\* String.prototype.substring(from, to) for 0 <= from <= to <= length
Substring(s, from, to) == SubSeq(s, from + 1, to)

RECURSIVE Concat(_)
\* concatenation of a sequence of texts
Concat(ss) == IF ss = <<>> THEN <<>> ELSE Head(ss) \o Concat(Tail(ss))

\* toLocaleUpperCase on the characters the model uses
UpperChar(c) ==
    CASE c = "a" -> "A"
      [] c = "b" -> "B"
      [] c = "c" -> "C"
      [] OTHER -> c

\* text.toLocaleUpperCase().replace(/ /g, "..")
DebugMark(text) ==
    Concat([i \in 1..Len(text) |->
              IF text[i] = " " THEN <<".", ".">> ELSE <<UpperChar(text[i])>>])

DEBUG == TRUE

(***************************************************************************)
(* utils.js: replaceSubstring, applyChanges                                *)
(***************************************************************************)

\* the range test of replaceSubstring
InvalidIndices(original, change) ==
    \/ change.start < 0
    \/ change.end > Len(original)
    \/ change.start >= change.end

\* the text replaceSubstring substitutes for a change
Substituted(change) == IF ~DEBUG THEN change.text ELSE DebugMark(change.text)

replaceSubstring(original, change) ==
    IF InvalidIndices(original, change)
    THEN [threw |-> TRUE, value |-> original,
          error |-> <<change.start, change.end>>]
    ELSE [threw |-> FALSE,
          value |-> Substring(original, 0, change.start)
                      \o Substituted(change)
                      \o Substring(original, change.end, Len(original)),
          error |-> <<>>]

\* comparator of the sort call: negative when a goes before b
CompareMutant(a, b) == a.start - b.start

Compare(a, b) == b.start - a.start

RECURSIVE InsertSorted(_, _)
\* insert c after every element that does not compare greater (stable)
InsertSorted(sorted, c) ==
    IF sorted = <<>> THEN <<c>>
    ELSE IF Compare(Head(sorted), c) <= 0
         THEN <<Head(sorted)>> \o InsertSorted(Tail(sorted), c)
         ELSE <<c>> \o sorted

RECURSIVE SortChanges(_)
\* Array.prototype.sort with Compare: a stable sort
SortChanges(cs) ==
    IF cs = <<>> THEN <<>>
    ELSE InsertSorted(SortChanges(SubSeq(cs, 1, Len(cs) - 1)), cs[Len(cs)])

(***************************************************************************)
(* The positioned document tree handed over by the parser.  A node is a    *)
(* record; pos tells whether the parser gave it a position, start and end  *)
(* are position.start.offset and position.end.offset.                      *)
(***************************************************************************)

NodeOf(type, children) ==
    [type |-> type, children |-> children, pos |-> TRUE, start |-> 0,
     end |-> 0, name |-> <<>>, label |-> FALSE, attributes |-> <<>>,
     url |-> <<>>, value |-> <<>>, body |-> <<>>]

RelativeLinkName == <<"R","e","l","a","t","i","v","e","L","i","n","k">>

AccordionItemName == <<"A","c","c","o","r","d","i","o","n","I","t","e","m">>

TitleName == <<"t","i","t","l","e">>

\* the text of one attribute inside an opening tag:  name="value"
AttributeText(a) == a.name \o <<"=", "\"">> \o a.value \o <<"\"">>

\* the text of one statement of an ESM block
StatementText(st) == st.head \o st.raw

RECURSIVE JoinLines(_)
JoinLines(ss) ==
    IF ss = <<>> THEN <<>>
    ELSE IF Len(ss) = 1 THEN ss[1]
    ELSE ss[1] \o <<"\n">> \o JoinLines(Tail(ss))

\* what the source holds before the first child of a node
Prefix(n) ==
    CASE n.type = "link" -> <<"[">>
      [] n.type = "image" -> <<"!", "[", "]", "(">> \o n.url \o <<")">>
      [] n.type = "code" -> <<"~", "~", "~", "\n">> \o n.value \o <<"\n", "~", "~", "~">>
      [] n.type = "text" -> n.value
      [] n.type = "heading" -> IF n.children = <<>> THEN <<"#">> ELSE <<"#", " ">>
      [] n.type = "paragraph" -> IF n.label THEN <<"[">> ELSE <<>>
      [] n.type = "listItem" -> <<"-", " ">>
      [] n.type = "tableCell" -> <<"|", " ">>
      [] n.type = "containerDirective" ->
            <<":", ":", ":">> \o n.name
              \o (IF n.children # <<>> /\ n.children[1].label THEN <<>> ELSE <<"\n">>)
      [] n.type = "mdxJsxFlowElement" ->
            <<"<">> \o n.name
              \o Concat([i \in 1..Len(n.attributes) |->
                           <<" ">> \o AttributeText(n.attributes[i])])
              \o (IF n.children = <<>> THEN <<" ", "/", ">">> ELSE <<">", "\n">>)
      [] n.type = "yaml" -> <<"-", "-", "-", "\n">> \o n.value \o <<"\n", "-", "-", "-">>
      [] n.type = "mdxjsEsm" ->
            JoinLines([i \in 1..Len(n.body) |-> StatementText(n.body[i])])
      [] OTHER -> <<>>

\* what the source holds between child i and child i + 1 of a node
SepAfter(n, i) ==
    CASE n.type = "root" -> <<"\n", "\n">>
      [] n.type = "list" -> <<"\n">>
      [] n.type = "listItem" -> <<"\n", "\n">>
      [] n.type = "table" ->
            IF i = 1 THEN <<"\n", "|", "-", "|", "\n">> ELSE <<"\n">>
      [] n.type = "containerDirective" ->
            IF i = 1 /\ n.children[1].label THEN <<"\n">> ELSE <<"\n", "\n">>
      [] n.type = "mdxJsxFlowElement" -> <<"\n", "\n">>
      [] OTHER -> <<>>

\* what the source holds after the last child of a node
Suffix(n) ==
    CASE n.type = "link" -> <<"]", "(">> \o n.url \o <<")">>
      [] n.type = "paragraph" -> IF n.label THEN <<"]">> ELSE <<>>
      [] n.type = "tableCell" -> <<" ">>
      [] n.type = "tableRow" -> <<"|">>
      [] n.type = "table" ->
            IF Len(n.children) = 1 THEN <<"\n", "|", "-", "|">> ELSE <<>>
      [] n.type = "containerDirective" -> <<"\n", ":", ":", ":">>
      [] n.type = "mdxJsxFlowElement" ->
            IF n.children = <<>> THEN <<>>
            ELSE <<"\n", "<", "/">> \o n.name \o <<">">>
      [] OTHER -> <<>>

RECURSIVE Render(_)
RECURSIVE RenderFrom(_, _)
\* the source text of the children i.. of n with their separators
RenderFrom(n, i) ==
    IF i > Len(n.children) THEN <<>>
    ELSE Render(n.children[i])
           \o (IF i < Len(n.children) THEN SepAfter(n, i) ELSE <<>>)
           \o RenderFrom(n, i + 1)

\* the source text of a node
Render(n) == Prefix(n) \o RenderFrom(n, 1) \o Suffix(n)

RECURSIVE Place(_, _)
RECURSIVE PlaceFrom(_, _, _)
\* the children i.. of n, the first of them at offset off
PlaceFrom(n, i, off) ==
    IF i > Len(n.children) THEN <<>>
    ELSE LET k == Place(n.children[i], off)
         IN  <<k>> \o PlaceFrom(n, i + 1, k.end + Len(SepAfter(n, i)))

\* offset of attribute i of an element that starts at off
AttributeStart(n, i, off) ==
    off + 1 + Len(n.name)
        + Len(Concat([j \in 1..(i - 1) |->
                        <<" ">> \o AttributeText(n.attributes[j])])) + 1

\* offset of the source literal of statement i of an ESM block that starts at off
StatementStart(n, i, off) ==
    off + Len(Concat([j \in 1..(i - 1) |->
                        StatementText(n.body[j]) \o <<"\n">>]))
        + Len(n.body[i].head)

\* the node as the parser positions it when its text starts at offset off
Place(n, off) ==
    [n EXCEPT
       !.start = off,
       !.end = off + Len(Render(n)),
       !.children = PlaceFrom(n, 1, off + Len(Prefix(n))),
       !.attributes =
           [i \in 1..Len(n.attributes) |->
              [n.attributes[i] EXCEPT
                 !.start = AttributeStart(n, i, off),
                 !.end = AttributeStart(n, i, off)
                           + Len(AttributeText(n.attributes[i]))]],
       !.body =
           [i \in 1..Len(n.body) |->
              [n.body[i] EXCEPT
                 !.start = StatementStart(n, i, off),
                 !.end = StatementStart(n, i, off) + Len(n.body[i].raw)]]]

(***************************************************************************)
(* upload.js: localizeUrl, parseFrontmatter, parseImports                  *)
(***************************************************************************)

\* 0-based index of the first occurrence of pat in s, -1 when there is none
IndexOf(s, pat) ==
    LET hits == {i \in 0..(Len(s) - Len(pat)) : Substring(s, i, i + Len(pat)) = pat}
    IN  IF hits = {} THEN -1 ELSE CHOOSE i \in hits : \A j \in hits : i <= j

\* createPlaceholder("locale")
LocalePlaceholder == <<"%", "%", "l", "o", "c", "a", "l", "e", "%", "%">>

\* shortLocale(DEFAULT_LOCALE)
ShortLocale == <<"e", "n">>

\* url.replace(`/${locale}`, `/${placeholder}`): the first occurrence only
localizeUrl(url) ==
    LET pat == <<"/">> \o ShortLocale
        i == IndexOf(url, pat)
    IN  IF i < 0 THEN url
        ELSE Substring(url, 0, i) \o <<"/">> \o LocalePlaceholder
               \o Substring(url, i + Len(pat), Len(url))

\* the sort of a change record; absent fields of the source are "none"
Change(type, text, start, end, notesKind, notesName) ==
    [type |-> type, text |-> text, start |-> start, end |-> end,
     notes |-> [kind |-> notesKind, name |-> notesName]]

\* \s and . of the title pattern, on the characters the model uses
IsSpace(c) == c \in {" ", "\n"}

IsDot(c) == c # "\n"

\* number of whitespace characters of v from 0-based index j on
WsRun(v, j) ==
    LET ends == {r \in 0..(Len(v) - j) :
                   /\ \A q \in 1..r : IsSpace(v[j + q])
                   /\ (j + r < Len(v) => ~IsSpace(v[j + r + 1]))}
    IN  CHOOSE r \in ends : TRUE

\* the whitespace counts \s* may take at j so that (.+) still matches
TitleGaps(v, j) ==
    {k \in 0..WsRun(v, j) : j + k < Len(v) /\ IsDot(v[j + k + 1])}

\* the 0-based indices at which /(title:\s*)(.+)(?:\n|$)/ matches
TitleStarts(v) ==
    {i \in 0..(Len(v) - Len(TitleName) - 1) :
       /\ Substring(v, i, i + Len(TitleName) + 1) = TitleName \o <<":">>
       /\ TitleGaps(v, i + Len(TitleName) + 1) # {}}

\* regex.exec(frontmatter.value): index, match[1].length and match[2]
TitleMatch(v) ==
    IF TitleStarts(v) = {} THEN [found |-> FALSE, index |-> 0, lead |-> 0, title |-> <<>>]
    ELSE LET i == CHOOSE x \in TitleStarts(v) : \A y \in TitleStarts(v) : x <= y
             j == i + Len(TitleName) + 1
             gaps == TitleGaps(v, j)
             k == CHOOSE x \in gaps : \A y \in gaps : x >= y
             from == j + k
             stops == {q \in (from + 1)..Len(v) :
                         \A r \in (from + 1)..q : IsDot(v[r])}
             to == CHOOSE x \in stops : \A y \in stops : x >= y
         IN  [found |-> TRUE, index |-> i, lead |-> Len(TitleName) + 1 + k,
              title |-> Substring(v, from, to)]

\* divider.length added to the block's offset when a title is located
DividerLengthMutant == 4 - 1

DividerLength == 4

parseFrontmatter(doc) ==
    LET yamls == {i \in 1..Len(doc.children) : doc.children[i].type = "yaml"}
    IN  IF yamls = {} THEN <<>>
        ELSE LET frontmatter == doc.children[CHOOSE i \in yamls : \A j \in yamls : i <= j]
                 match == TitleMatch(frontmatter.value)
                 startOffset == DividerLength + match.index + match.lead
                 endOffset == startOffset + Len(match.title)
             IN  IF ~match.found THEN <<>>
                 ELSE <<Change("title", match.title,
                               frontmatter.start + startOffset,
                               frontmatter.start + endOffset,
                               "title for document", <<>>)>>

\* the changes of the import statements of one ESM block
ImportChanges(node) ==
    LET picked == [i \in 1..Len(node.body) |->
                     LET child == node.body[i]
                     IN  IF child.type = "ImportDeclaration"
                            /\ child.raw # localizeUrl(child.raw)
                         THEN <<Change("Import", localizeUrl(child.raw),
                                       child.start, child.end, "none", <<>>)>>
                         ELSE <<>>]
    IN  Concat(picked)

parseImports(doc) ==
    Concat([i \in 1..Len(doc.children) |->
              IF doc.children[i].type = "mdxjsEsm"
              THEN ImportChanges(doc.children[i]) ELSE <<>>])

(***************************************************************************)
(* upload.js: parseContent, parseNode, parseChildrenAsRoot, parseChildren, *)
(* parseAttribute.  A call yields the node as it leaves it, the changes    *)
(* array as it leaves it, and whether it threw (err) and in which node.    *)
(***************************************************************************)

TOP_LEVEL_NODE_TYPES ==
    {"containerDirective", "heading", "image", "list", "mdxJsxFlowElement",
     "paragraph", "table"}

NoNode == NodeOf("none", <<>>)

Done(node, chs) == [node |-> node, changes |-> chs, err |-> FALSE, at |-> NoNode, text |-> <<>>]

Threw(node, chs) == [node |-> node, changes |-> chs, err |-> TRUE, at |-> node, text |-> <<>>]

\* str.replace(/\n$/, "")
chomp(str) ==
    IF str # <<>> /\ str[Len(str)] = "\n" THEN SubSeq(str, 1, Len(str) - 1) ELSE str

\* processor.stringify(child): the node written back as source text
Stringify(child) == Render(child)

\* start offset of an attribute's change
AttributeValueStart(attribute) == attribute.start + Len(attribute.name) + 1

parseAttribute(name, node, chs) ==
    LET found == {i \in 1..Len(node.attributes) : node.attributes[i].name = name}
    IN  IF found = {} THEN Done(node, chs)
        ELSE LET attribute == node.attributes[CHOOSE i \in found : \A j \in found : i <= j]
             IN  Done(node,
                      Append(chs, Change("none", attribute.value,
                                         AttributeValueStart(attribute),
                                         attribute.end - 1,
                                         "'title' attribute for", node.name)))

\* node.children[0].position and node.children.slice(-1)[0].position can be read
EdgeSpansReadable(node) ==
    /\ node.children # <<>>
    /\ node.children[1].pos
    /\ node.children[Len(node.children)].pos

RECURSIVE parseNode(_, _, _)
RECURSIVE ChildrenAsRootFrom(_, _, _)
RECURSIVE ChildrenFrom(_, _, _, _)

\* node.children.forEach(child => parseNode(child, changes, processor, true))
\* from child i on
ChildrenAsRootFrom(node, i, chs) ==
    IF i > Len(node.children) THEN Done(node, chs)
    ELSE LET r == parseNode(node.children[i], chs, TRUE)
             kept == [node EXCEPT !.children[i] = r.node]
         IN  IF r.err THEN [r EXCEPT !.node = kept]
             ELSE ChildrenAsRootFrom(kept, i + 1, r.changes)

parseChildrenAsRoot(node, chs) == ChildrenAsRootFrom(node, 1, chs)

\* the loop of parseChildren from child i on, text being the string so far
ChildrenFrom(node, i, chs, text) ==
    IF i > Len(node.children) THEN [Done(node, chs) EXCEPT !.text = text]
    ELSE LET r == parseNode(node.children[i], chs, FALSE)
             child == r.node
             kept == [node EXCEPT !.children[i] = child]
             withBreak == IF child.type = "code" THEN text \o <<"\n">> ELSE text
             grown == IF child.type # "list"
                      THEN withBreak \o chomp(Stringify(child)) ELSE withBreak
         IN  IF r.err THEN [r EXCEPT !.node = kept]
             ELSE ChildrenFrom(kept, i + 1, r.changes, grown)

parseChildren(node, chs) == ChildrenFrom(node, 1, chs, <<>>)

\* the heading / paragraph / tableCell branch
ContentBranch(node, chs, root) ==
    LET r == parseChildren(node, chs)
    IN  IF r.err \/ ~root THEN r
        ELSE IF ~EdgeSpansReadable(r.node) THEN Threw(r.node, r.changes)
        ELSE Done(r.node,
                  Append(r.changes,
                         Change("none", r.text, r.node.children[1].start,
                                r.node.children[Len(r.node.children)].end,
                                "", <<>>)))

\* the containerDirective branch after the label, if any, is dealt with
DirectiveContent(node, chs) ==
    LET r == parseChildren(node, chs)
    IN  IF r.err THEN r
        ELSE IF ~EdgeSpansReadable(r.node) THEN Threw(r.node, r.changes)
        ELSE Done(r.node,
                  Append(r.changes,
                         Change("none", r.text, r.node.children[1].start,
                                r.node.children[Len(r.node.children)].end,
                                "content for the callout", r.node.name)))

\* the containerDirective branch
DirectiveBranch(node, chs) ==
    IF node.children = <<>> THEN Threw(node, chs)
    ELSE LET first == node.children[1]
         IN  IF ~first.label THEN DirectiveContent(node, chs)
             ELSE IF first.children = <<>> \/ ~first.pos THEN Threw(node, chs)
             ELSE DirectiveContent(
                      [node EXCEPT !.children = Tail(node.children)],
                      Append(chs, Change("containerDirectiveLabel",
                                         first.children[1].value,
                                         first.start + 1, first.end - 1,
                                         "title for the callout", node.name)))

parseNode(node, chs, root) ==
    CASE node.type = "link" ->
            Done([node EXCEPT !.url = localizeUrl(node.url)], chs)
      [] node.type = "mdxJsxFlowElement" ->
            IF node.name = RelativeLinkName
            THEN parseAttribute(TitleName, node, chs)
            ELSE IF node.name = AccordionItemName
            THEN parseChildrenAsRoot(node, parseAttribute(TitleName, node, chs).changes)
            ELSE Done(node, chs)
      [] node.type = "image" -> Done(node, chs)
      [] node.type \in {"list", "listItem", "table", "tableRow"} ->
            parseChildrenAsRoot(node, chs)
      [] node.type \in {"heading", "paragraph", "tableCell"} ->
            ContentBranch(node, chs, root)
      [] node.type = "containerDirective" -> DirectiveBranch(node, chs)
      [] OTHER -> Done(node, chs)

RECURSIVE ContentFrom(_, _, _)
\* the loop of parseContent from child i of the root on
ContentFrom(doc, i, chs) ==
    IF i > Len(doc.children) THEN Done(doc, chs)
    ELSE IF doc.children[i].type \in TOP_LEVEL_NODE_TYPES
    THEN LET r == parseNode(doc.children[i], chs, TRUE)
         IN  IF r.err THEN r ELSE ContentFrom(doc, i + 1, r.changes)
    ELSE ContentFrom(doc, i + 1, chs)

parseContent(doc) == ContentFrom(doc, 1, <<>>)

(***************************************************************************)
(* The documents the extraction pass is run on                             *)
(***************************************************************************)

Txt == [NodeOf("text", <<>>) EXCEPT !.value = <<"h", "i">>]

Lnk == [NodeOf("link", <<Txt>>) EXCEPT !.url = <<"/", "e", "n", "/", "a">>]

Img == [NodeOf("image", <<>>) EXCEPT !.url = <<"u">>]

Cod == [NodeOf("code", <<>>) EXCEPT !.value = <<"x">>]

Par(kids) == NodeOf("paragraph", kids)

Hd(kids) == NodeOf("heading", kids)

Cell(kids) == NodeOf("tableCell", kids)

Row(cells) == NodeOf("tableRow", cells)

Tbl(rows) == NodeOf("table", rows)

Item(blocks) == NodeOf("listItem", blocks)

Lst(items) == NodeOf("list", items)

\* the paragraph remark-directive makes of the [label] of a directive
LabelPar == [Par(<<Txt>>) EXCEPT !.label = TRUE]

Dir(kids) == [NodeOf("containerDirective", kids) EXCEPT !.name = <<"t", "i", "p">>]

Attr(name, value) == [name |-> name, value |-> value, start |-> 0, end |-> 0]

Jsx(name, attrs, kids) ==
    [NodeOf("mdxJsxFlowElement", kids) EXCEPT !.name = name, !.attributes = attrs]

TitleAttr == Attr(TitleName, <<"V", "w">>)

IdAttr == Attr(<<"i", "d">>, <<"k">>)

TabsName == <<"T", "a", "b", "s">>

Yaml(value) == [NodeOf("yaml", <<>>) EXCEPT !.value = value]

Statement(type, head, raw) ==
    [type |-> type, head |-> head, raw |-> raw, start |-> 0, end |-> 0]

ImportHead == <<"i", "m", "p", "o", "r", "t", " ", "A", " ", "f", "r", "o", "m", " ">>

\* import A from "/en/a"
ImportLocalized ==
    Statement("ImportDeclaration", ImportHead, <<"\"", "/", "e", "n", "/", "a", "\"">>)

\* import A from "./b"
ImportPlain ==
    Statement("ImportDeclaration", ImportHead, <<"\"", ".", "/", "b", "\"">>)

\* export const c = 1
ExportConst ==
    Statement("ExportNamedDeclaration",
              <<"e", "x", "p", "o", "r", "t", " ", "c", "o", "n", "s", "t", " ",
                "c", " ", "=", " ", "1">>, <<>>)

Esm(body) == [NodeOf("mdxjsEsm", <<>>) EXCEPT !.body = body]

P1 == Par(<<Txt>>)

P2 == Par(<<Txt, Lnk>>)

H1 == Hd(<<Txt>>)

Paragraphs == {P1, P2, Par(<<Lnk, Img, Txt>>)}

Headings == {Hd(<<>>), H1}

R1 == Row(<<Cell(<<Txt>>)>>)

Tables == {Tbl(<<R1>>), Tbl(<<R1, R1>>), Tbl(<<R1, Row(<<Cell(<<Txt>>), Cell(<<>>)>>)>>)}

L1 == Lst(<<Item(<<P1>>)>>)

Lists == {L1, Lst(<<Item(<<P1>>), Item(<<P2>>)>>), Lst(<<Item(<<P1, L1>>)>>)}

RelT == Jsx(RelativeLinkName, <<TitleAttr>>, <<>>)

AccT == Jsx(AccordionItemName, <<TitleAttr>>, <<P1>>)

Elements ==
    {RelT, AccT,
     Jsx(RelativeLinkName, <<>>, <<>>),
     Jsx(RelativeLinkName, <<IdAttr, TitleAttr>>, <<>>),
     Jsx(AccordionItemName, <<>>, <<H1, L1>>),
     Jsx(TabsName, <<TitleAttr>>, <<P1>>)}

\* most children of a directive besides its label
MaxDirectiveChildren == 2

\* what a directive holds
DirectiveParts == {P1, Cod, H1, L1, Tbl(<<R1>>), RelT, AccT, Dir(<<P1>>)}

\* adjacent lists do not occur: the parser reads them as one list
NoAdjacentLists(kids) ==
    \A i \in 1..(Len(kids) - 1) : ~(kids[i].type = "list" /\ kids[i + 1].type = "list")

Directives ==
    UNION {{Dir(kids), Dir(<<LabelPar>> \o kids)} :
             kids \in {k \in UNION {[1..n -> DirectiveParts] : n \in 0..MaxDirectiveChildren} :
                         NoAdjacentLists(k)}}

TopBlocks == Paragraphs \cup Headings \cup Tables \cup Lists \cup Elements
               \cup Directives \cup {Cod}

\* document bodies: one block of any shape, or two simple ones
Bodies ==
    {<<b>> : b \in TopBlocks}
      \cup {k \in {<<a, b>> : a, b \in {P1, H1, L1, Dir(<<LabelPar, P1>>)}} :
              NoAdjacentLists(k)}

\* document bodies that follow a metadata block or imports
ShortBodies == {<<P1>>, <<H1, P2>>, <<Dir(<<LabelPar, L1>>)>>, <<RelT, Tbl(<<R1>>)>>}

\* title: G
YamlTitle == <<"t", "i", "t", "l", "e", ":", " ", "G", "o">>

YamlValues ==
    {YamlTitle,
     <<"a", ":", " ", "b">>,
     <<"a", ":", " ", "b", "\n">> \o YamlTitle \o <<"\n", "c", ":", " ", "d">>,
     <<"s", "u", "b">> \o YamlTitle,
     <<"t", "i", "t", "l", "e", ":", "\n", "k", ":", " ", "v">>,
     <<"t", "i", "t", "l", "e", ":", "G">>,
     <<"t", "i", "t", "l", "e", ":", " ", " ">>}

Fronts == {<<>>} \cup {<<Yaml(v)>> : v \in YamlValues}

Imports ==
    {<<>>, <<Esm(<<ImportLocalized>>)>>, <<Esm(<<ImportPlain>>)>>,
     <<Esm(<<ExportConst, ImportLocalized>>)>>,
     <<Esm(<<ImportLocalized, ImportPlain>>), Esm(<<ImportLocalized>>)>>}

\* the trees the parser hands over, every node positioned
PlacedDocuments ==
    {Place(NodeOf("root", b), 0) : b \in Bodies}
      \cup {Place(NodeOf("root", f \o i \o b), 0) :
              f \in Fronts, i \in Imports, b \in ShortBodies}

RECURSIVE Descendants(_)
\* the nodes below a node
Descendants(n) ==
    UNION {{n.children[i]} \cup Descendants(n.children[i]) : i \in 1..Len(n.children)}

RECURSIVE StripAt(_, _)
\* the tree with the position of node k left out
StripAt(n, k) ==
    [n EXCEPT
       !.pos = IF n = k THEN FALSE ELSE n.pos,
       !.children = [i \in 1..Len(n.children) |-> StripAt(n.children[i], k)]]

\* the trees the extraction pass is run on: a placed document, or one of the
\* body-only documents with the position of one node of the body missing
Documents ==
    PlacedDocuments
      \cup UNION {{StripAt(d, k) : k \in Descendants(d)} :
                    d \in {Place(NodeOf("root", b), 0) : b \in Bodies}}

\* no document is being processed
WalkIdle ==
    /\ source = <<>>
    /\ ast = NoNode
    /\ strings = <<>>
    /\ wpc = "idle"
    /\ failedAt = NoNode

\* the action is not running
MainIdle ==
    /\ action = ""
    /\ filePaths = <<>>
    /\ longName = FALSE
    /\ mpc = "idle"
    /\ fileIdx = 0
    /\ data = {}
    /\ calls = <<>>
    /\ failures = <<>>
    /\ status = ""

\* no text is being patched
ApplyIdle ==
    /\ content = <<>>
    /\ given = <<>>
    /\ changes = <<>>
    /\ result = <<>>
    /\ idx = 0
    /\ apc = "idle"
    /\ thrown = <<>>

\* content read and parsed: the state before the change list is built
WalkInit ==
    /\ ast \in Documents
    /\ source = Render(ast)
    /\ strings = <<>>
    /\ wpc = "parsed"
    /\ failedAt = NoNode
    /\ ApplyIdle
    /\ MainIdle

\* const strings = [...parseFrontmatter(ast), ...parseImports(ast),
\*                  ...parseContent(ast, mdxProcessor)]
Extract ==
    /\ wpc = "parsed"
    /\ LET r == parseContent(ast)
       IN  IF r.err
           THEN /\ wpc' = "threw"
                /\ failedAt' = r.at
                /\ UNCHANGED strings
           ELSE /\ wpc' = "extracted"
                /\ strings' = parseFrontmatter(ast) \o parseImports(ast) \o r.changes
                /\ UNCHANGED failedAt
    /\ UNCHANGED <<source, ast, applyVars, mainVars>>

WalkNext == Extract

SpecWalk == WalkInit /\ [][WalkNext]_vars

\* length of the text handed to applyChanges
SrcLen == 3

\* most changes in one call of applyChanges
MaxChanges == 2

\* the text handed to applyChanges: "a Xa X..." cut to SrcLen characters
SourceText == [i \in 1..SrcLen |->
                 IF i % 3 = 1 THEN "a" ELSE IF i % 3 = 2 THEN " " ELSE "X"]

\* what a change's text may hold: the untouched slice, nothing, or new text
TextFor(s, e) ==
    {<<>>, <<"b", " ">>}
      \cup (IF 0 <= s /\ s < e /\ e <= SrcLen
            THEN {Substring(SourceText, s, e)} ELSE {})

ChangeRecords ==
    UNION {{[start |-> s, end |-> e, text |-> t] : t \in TextFor(s, e)} :
             s \in (-1)..(SrcLen - 1), e \in 1..(SrcLen + 1)}

ChangeLists ==
    UNION {[1..n -> ChangeRecords] : n \in 0..MaxChanges}

ApplyInit ==
    /\ content = SourceText
    /\ given \in ChangeLists
    /\ changes = given
    /\ result = content
    /\ idx = 0
    /\ apc = "called"
    /\ thrown = <<>>
    /\ WalkIdle
    /\ MainIdle

\* changes.sort(...): sorts the caller's array in place
SortStep ==
    /\ apc = "called"
    /\ changes' = SortChanges(changes)
    /\ idx' = 1
    /\ apc' = "loop"
    /\ UNCHANGED <<content, given, result, thrown, walkVars, mainVars>>

\* one iteration of forEach: result = replaceSubstring(result, change)
ApplyStep ==
    /\ apc = "loop"
    /\ idx <= Len(changes)
    /\ LET r == replaceSubstring(result, changes[idx])
       IN  IF r.threw
           THEN /\ apc' = "threw"
                /\ thrown' = r.error
                /\ UNCHANGED <<result, idx>>
           ELSE /\ result' = r.value
                /\ idx' = idx + 1
                /\ UNCHANGED <<apc, thrown>>
    /\ UNCHANGED <<content, given, changes, walkVars, mainVars>>

\* return result
ReturnStep ==
    /\ apc = "loop"
    /\ idx > Len(changes)
    /\ apc' = "returned"
    /\ UNCHANGED <<content, given, changes, result, idx, thrown, walkVars, mainVars>>

ApplyNext == SortStep \/ ApplyStep \/ ReturnStep

SpecApply == ApplyInit /\ [][ApplyNext]_vars

(***************************************************************************)
(* index.js main, upload.js uploadFiles, smartling.js: one run of the      *)
(* action.  filePaths[i] tells whether reading, parsing, extracting and    *)
(* rendering file i goes through or throws; every request draws the        *)
(* status of its response.                                                 *)
(***************************************************************************)

\* most entries of the file-paths input
MaxFiles == 2

MinSuccessStatus == 200

MaxSuccessStatus == 299

\* the response statuses the service answers with
Statuses == {MinSuccessStatus - 1, MinSuccessStatus, MaxSuccessStatus, MaxSuccessStatus + 1}

\* validateResponse throws
Rejected(st) == st < MinSuccessStatus \/ st > MaxSuccessStatus

UploadedStatus == "Successfully uploaded files to Smartling"

UpdatedStatus == "Successfully updated local source files"

MainInit ==
    /\ action \in {"upload", "update", "other"}
    /\ filePaths \in UNION {[1..n -> {"ok", "throws"}] : n \in 1..MaxFiles}
    /\ longName \in BOOLEAN
    /\ mpc = "main"
    /\ fileIdx = 0
    /\ data = {}
    /\ calls = <<>>
    /\ failures = <<>>
    /\ status = ""
    /\ ApplyIdle
    /\ WalkIdle

\* handleError(error) in a catch block: setFailed(error)
handleError(error) == failures' = Append(failures, error)

\* the switch of main
Dispatch ==
    /\ mpc = "main"
    /\ CASE action = "upload" ->
              /\ mpc' = "prepare"
              /\ fileIdx' = 1
              /\ UNCHANGED <<failures, status>>
         [] action = "update" ->
              /\ status' = UpdatedStatus
              /\ mpc' = "done"
              /\ UNCHANGED <<failures, fileIdx>>
         [] OTHER ->
              /\ failures' = Append(failures, "Unrecognized action")
              /\ mpc' = "done"
              /\ UNCHANGED <<status, fileIdx>>
    /\ UNCHANGED <<action, filePaths, longName, data, calls, applyVars, walkVars>>

\* one pass of the first loop of uploadFiles; a throw leaves uploadFiles and
\* is caught in main
PrepareFile ==
    /\ mpc = "prepare"
    /\ fileIdx <= Len(filePaths)
    /\ IF filePaths[fileIdx] = "throws"
       THEN /\ handleError("file could not be prepared")
            /\ mpc' = "done"
            /\ UNCHANGED <<fileIdx, data>>
       ELSE /\ data' = data \cup {fileIdx}
            /\ fileIdx' = fileIdx + 1
            /\ UNCHANGED <<mpc, failures>>
    /\ UNCHANGED <<action, filePaths, longName, calls, status, applyVars, walkVars>>

\* the three getInput(..., {required: true}) calls inside the try block
ReadInputs ==
    /\ mpc = "prepare"
    /\ fileIdx > Len(filePaths)
    /\ \E present \in BOOLEAN :
          IF present
          THEN mpc' = "authenticate" /\ UNCHANGED failures
          ELSE mpc' = "returned" /\ handleError("input required and not supplied")
    /\ UNCHANGED <<action, filePaths, longName, fileIdx, data, calls, status,
                   applyVars, walkVars>>

\* a request whose rejection is reported but does not end the try block
RequestMutant(op, file, next) ==
    \E st \in Statuses :
        /\ calls' = Append(calls, [op |-> op, file |-> file, status |-> st])
        /\ mpc' = next
        /\ IF Rejected(st) THEN handleError("Failed " \o op) ELSE UNCHANGED failures

\* a request, validateResponse on its response, and the catch of uploadFiles
Request(op, file, next) ==
    \E st \in Statuses :
        /\ calls' = Append(calls, [op |-> op, file |-> file, status |-> st])
        /\ IF Rejected(st)
           THEN mpc' = "returned" /\ handleError("Failed " \o op)
           ELSE mpc' = next /\ UNCHANGED failures

Authenticate ==
    /\ mpc = "authenticate"
    /\ Request("authenticate", 0, "createJob")
    /\ UNCHANGED <<action, filePaths, longName, fileIdx, data, status,
                   applyVars, walkVars>>

\* createJob: a name over MAX_JOB_NAME_LENGTH reads the undeclared str and throws
CreateJob ==
    /\ mpc = "createJob"
    /\ IF longName
       THEN /\ mpc' = "returned"
            /\ handleError("str is not defined")
            /\ UNCHANGED calls
       ELSE Request("createJob", 0, "createBatch")
    /\ UNCHANGED <<action, filePaths, longName, fileIdx, data, status,
                   applyVars, walkVars>>

CreateBatch ==
    /\ mpc = "createBatch"
    /\ Request("createBatch", 0, "uploadFile")
    /\ fileIdx' = 1
    /\ UNCHANGED <<action, filePaths, longName, data, status, applyVars, walkVars>>

UploadFileToBatch ==
    /\ mpc = "uploadFile"
    /\ fileIdx <= Len(filePaths)
    /\ Request("uploadFileToBatch", fileIdx, "uploadContext")
    /\ UNCHANGED <<action, filePaths, longName, fileIdx, data, status,
                   applyVars, walkVars>>

UploadContext ==
    /\ mpc = "uploadContext"
    /\ Request("uploadContext", fileIdx, "uploadFile")
    /\ fileIdx' = IF mpc' = "uploadFile" THEN fileIdx + 1 ELSE fileIdx
    /\ UNCHANGED <<action, filePaths, longName, data, status, applyVars, walkVars>>

\* the second loop of uploadFiles is through
FinishUpload ==
    /\ mpc = "uploadFile"
    /\ fileIdx > Len(filePaths)
    /\ mpc' = "returned"
    /\ UNCHANGED <<action, filePaths, longName, fileIdx, data, calls, failures,
                   status, applyVars, walkVars>>

\* main after await uploadFiles(filePaths): setOutput("status", ...)
SetUploadedStatus ==
    /\ mpc = "returned"
    /\ status' = UploadedStatus
    /\ mpc' = "done"
    /\ UNCHANGED <<action, filePaths, longName, fileIdx, data, calls, failures,
                   applyVars, walkVars>>

MainNext ==
    \/ Dispatch
    \/ PrepareFile
    \/ ReadInputs
    \/ Authenticate
    \/ CreateJob
    \/ CreateBatch
    \/ UploadFileToBatch
    \/ UploadContext
    \/ FinishUpload
    \/ SetUploadedStatus

SpecMain == MainInit /\ [][MainNext]_vars

(***************************************************************************)
(* Properties of the patch applier                                         *)
(***************************************************************************)

\* a span that is valid against the text handed to applyChanges
ValidSpan(c) == 0 <= c.start /\ c.start < c.end /\ c.end <= Len(content)

\* half-open spans [start, end) that share an offset
Overlap(a, b) == a.start < b.end /\ b.start < a.end

PairwiseDisjoint(cs) ==
    \A i, j \in 1..Len(cs) : i # j => ~Overlap(cs[i], cs[j])

WellFormedList(cs) ==
    (\A i \in 1..Len(cs) : ValidSpan(cs[i])) /\ PairwiseDisjoint(cs)

RECURSIVE Spliced(_, _)
\* source[pos:s1] + r1 + source[e1:s2] + r2 + ... + source[en:], the changes
\* of the set cs taken by ascending start
Spliced(pos, cs) ==
    IF cs = {} THEN Substring(content, pos, Len(content))
    ELSE LET c == CHOOSE x \in cs : \A y \in cs : x.start <= y.start
         IN  Substring(content, pos, c.start) \o Substituted(c)
               \o Spliced(c.end, cs \ {c})

Range(f) == {f[i] : i \in DOMAIN f}

\* C2: for pairwise non-overlapping changes with valid spans, given in any
\* order, applyChanges never throws, the result still equals the source on
\* [0, end) of the change about to be applied, and the returned text is
\* source[0:s1] + r1 + source[e1:s2] + ... + rn + source[en:] by ascending start.
C2_DescendingApplication ==
    WellFormedList(given) =>
        /\ apc # "threw"
        /\ (apc = "loop" /\ idx <= Len(changes)) =>
              Substring(result, 0, changes[idx].end)
                = Substring(content, 0, changes[idx].end)
        /\ apc = "returned" => result = Spliced(0, Range(given))

\* C2 witness: two disjoint changes handed over in ascending order, one
\* replacement longer and one shorter than its span, have been applied
C2_Witness ==
    /\ apc = "returned"
    /\ Len(given) = 2
    /\ WellFormedList(given)
    /\ given[1].start < given[2].start
    /\ Len(Substituted(given[1])) > given[1].end - given[1].start
    /\ Len(Substituted(given[2])) < given[2].end - given[2].start

\* C3: a single change with a valid span whose text is the slice
\* source[start:end] leaves the text as it was.
C3_IdentityRoundTrip ==
    (/\ apc = "returned"
     /\ Len(given) = 1
     /\ ValidSpan(given[1])
     /\ given[1].text = Substring(content, given[1].start, given[1].end))
      => result = content

\* C4: every span is validated against the text passed in before any change
\* is applied, so a list holding a change with start < 0, end > len(text) or
\* start >= end never yields a patched text and fails naming such a pair.
C4_ValidatedUpFront ==
    (\E i \in 1..Len(given) : ~ValidSpan(given[i])) =>
        /\ apc # "returned"
        /\ apc = "threw" =>
              \E i \in 1..Len(given) :
                  /\ ~ValidSpan(given[i])
                  /\ thrown = <<given[i].start, given[i].end>>
        /\ content = SourceText

(***************************************************************************)
(* Properties of the extraction pass                                       *)
(***************************************************************************)

RECURSIVE AllPositioned(_)
\* every node of the tree carries a position
AllPositioned(n) ==
    n.pos /\ \A i \in 1..Len(n.children) : AllPositioned(n.children[i])

ContentKinds == {"heading", "paragraph", "tableCell"}

FlattenedKinds == {"list", "listItem", "table", "tableRow"}

\* the children of a directive once its label is taken off
Remaining(n) ==
    IF n.children # <<>> /\ n.children[1].label THEN Tail(n.children) ELSE n.children

RECURSIVE Visited(_, _)
\* the nodes the walk hands to parseNode below and including n, each with
\* the root flag it is handed over with
Visited(n, root) ==
    {[node |-> n, root |-> root]}
      \cup (CASE n.type \in FlattenedKinds
                   \/ (n.type = "mdxJsxFlowElement" /\ n.name = AccordionItemName) ->
                     UNION {Visited(n.children[i], TRUE) : i \in 1..Len(n.children)}
              [] n.type \in ContentKinds ->
                     UNION {Visited(n.children[i], FALSE) : i \in 1..Len(n.children)}
              [] n.type = "containerDirective" ->
                     UNION {Visited(Remaining(n)[i], FALSE) : i \in 1..Len(Remaining(n))}
              [] OTHER -> {})

\* every node of the document the walk hands to parseNode
Walked ==
    UNION {IF ast.children[i].type \in TOP_LEVEL_NODE_TYPES
           THEN Visited(ast.children[i], TRUE) ELSE {} : i \in 1..Len(ast.children)}

\* the changes, by index, of a notes kind that span [from, to)
ChangesAt(kind, from, to) ==
    {i \in 1..Len(strings) :
       /\ strings[i].notes.kind = kind
       /\ strings[i].start = from
       /\ strings[i].end = to}

ChangesOfKind(kind) == {i \in 1..Len(strings) : strings[i].notes.kind = kind}

\* C1: the change list of a document whose nodes are all positioned holds no
\* two changes whose spans [start, end) overlap.
C1_NoOverlap ==
    (wpc = "extracted" /\ AllPositioned(ast)) => PairwiseDisjoint(strings)

\* C5 as stated: every Title and every Reference change carries the slice
\* source[start:end] as its text.
C5_TextIsSlice ==
    wpc = "extracted" =>
        \A i \in 1..Len(strings) :
            strings[i].type \in {"title", "Import"} =>
                strings[i].text = Substring(source, strings[i].start, strings[i].end)

\* the import target literals of the document, as [start, end, raw]
ImportLiterals ==
    UNION {{[start |-> ast.children[i].body[j].start,
             end |-> ast.children[i].body[j].end,
             raw |-> ast.children[i].body[j].raw] :
              j \in {k \in 1..Len(ast.children[i].body) :
                       ast.children[i].body[k].type = "ImportDeclaration"}} :
             i \in {k \in 1..Len(ast.children) : ast.children[k].type = "mdxjsEsm"}}

\* C5 amended: a Title change carries the slice source[start:end]; a Reference
\* change spans an import target literal, source[start:end] is that literal,
\* and its text is the literal with the first "/en" rewritten to
\* "/%%locale%%", which is never the slice and is 8 characters longer.
C5_TitleIsSliceImportIsRewritten ==
    wpc = "extracted" =>
        \A i \in 1..Len(strings) :
            LET c == strings[i]
                slice == Substring(source, c.start, c.end)
            IN  /\ c.type = "title" =>
                      c.text = slice /\ c.end - c.start = Len(c.text)
                /\ c.type = "Import" =>
                      /\ [start |-> c.start, end |-> c.end, raw |-> slice] \in ImportLiterals
                      /\ c.text = localizeUrl(slice)
                      /\ c.text # slice
                      /\ Len(c.text) = c.end - c.start + 8

\* C5 witness: a document with a title that is not at the start of the
\* metadata block and a localized import has been extracted
C5_Witness ==
    /\ wpc = "extracted"
    /\ \E i, j \in 1..Len(strings) :
           /\ strings[i].type = "title"
           /\ strings[i].start > DividerLength + Len(TitleName) + 2
           /\ strings[j].type = "Import"

\* C6: a heading, paragraph or table cell handed over as a root-level node
\* yields exactly one change with empty notes, spanning its first child's
\* start to its last child's end; nothing else yields such a change.
C6_RootContentBlocks ==
    /\ wpc = "extracted" =>
          /\ \A v \in Walked :
                (v.node.type \in ContentKinds /\ v.root) =>
                    /\ v.node.children # <<>>
                    /\ Cardinality(ChangesAt("", v.node.children[1].start,
                                  v.node.children[Len(v.node.children)].end)) = 1
          /\ Cardinality(ChangesOfKind(""))
               = Cardinality({v \in Walked : v.node.type \in ContentKinds /\ v.root})
    /\ (wpc = "threw" /\ AllPositioned(ast)) => failedAt.type \notin ContentKinds

\* C7: a directive yields, in every case, one content change spanning its
\* first to its last child besides the label, and before it, when the first
\* child is a label, one label change spanning the label without its brackets.
C7_DirectiveChanges ==
    /\ wpc = "extracted" =>
          \A v \in Walked :
              v.node.type = "containerDirective" =>
                  LET rest == Remaining(v.node)
                      first == v.node.children[1]
                      body == ChangesAt("content for the callout",
                                        rest[1].start, rest[Len(rest)].end)
                      title == ChangesAt("title for the callout",
                                         first.start + 1, first.end - 1)
                  IN  /\ rest # <<>>
                      /\ Cardinality(body) = 1
                      /\ first.label =>
                            /\ Cardinality(title) = 1
                            /\ \A i \in title, j \in body :
                                   i < j /\ strings[j].start >= first.end
    /\ (wpc = "threw" /\ AllPositioned(ast)) => failedAt.type # "containerDirective"

\* the RelativeLink and AccordionItem elements handed to parseNode that have
\* a title attribute
TitledElements ==
    {v.node : v \in {w \in Walked :
                       /\ w.node.type = "mdxJsxFlowElement"
                       /\ w.node.name \in {RelativeLinkName, AccordionItemName}
                       /\ \E i \in 1..Len(w.node.attributes) :
                              w.node.attributes[i].name = TitleName}}

\* C8: title="V" on a RelativeLink or AccordionItem yields one change with
\* text V whose span is V's span: end - start = len(V), source[start:end] = V;
\* an element without the attribute yields no attribute change.
C8_AttributeSpanIsValue ==
    wpc = "extracted" =>
        /\ Cardinality(ChangesOfKind("'title' attribute for")) = Cardinality(TitledElements)
        /\ \A i \in ChangesOfKind("'title' attribute for") :
               /\ strings[i].end - strings[i].start = Len(strings[i].text)
               /\ Substring(source, strings[i].start, strings[i].end) = strings[i].text

\* C9: a change list is returned only for documents in which every heading,
\* paragraph, table cell and directive handed to parseNode, and every child
\* of one, carries a position.
C9_MissingSpanIsFatal ==
    wpc = "extracted" =>
        \A v \in Walked :
            v.node.type \in ContentKinds \cup {"containerDirective"} =>
                /\ v.node.pos
                /\ \A i \in 1..Len(v.node.children) : v.node.children[i].pos

(***************************************************************************)
(* Properties of a run of the action                                       *)
(***************************************************************************)

\* the requests answered with a status validateResponse accepts
Succeeded(op, file) ==
    \E i \in 1..Len(calls) :
        calls[i].op = op /\ calls[i].file = file /\ ~Rejected(calls[i].status)

SomeRequestFailed == \E i \in 1..Len(calls) : Rejected(calls[i].status)

\* C10: in an upload run the success status is set only if authentication,
\* job creation, batch creation and both uploads of every file succeeded;
\* a run in which a request failed reports it through setFailed and never
\* sets the success status.
C10_SuccessOnlyAfterAllSucceeded ==
    action = "upload" =>
        /\ status = UploadedStatus =>
              /\ Succeeded("authenticate", 0)
              /\ Succeeded("createJob", 0)
              /\ Succeeded("createBatch", 0)
              /\ \A f \in 1..Len(filePaths) :
                     Succeeded("uploadFileToBatch", f) /\ Succeeded("uploadContext", f)
        /\ SomeRequestFailed => (failures # <<>> /\ status # UploadedStatus)

\* the requests of a complete upload of n files, in order, as <<op, file>>
RequestOrder(n) ==
    <<<<"authenticate", 0>>, <<"createJob", 0>>, <<"createBatch", 0>>>>
      \o Concat([f \in 1..n |-> <<<<"uploadFileToBatch", f>>, <<"uploadContext", f>>>>])

\* C11: no request is made before every file of filePaths is prepared, so
\* none is made when preparing a file throws; the requests made are a prefix
\* of authenticate, createJob, createBatch, then uploadFileToBatch and
\* uploadContext per file in filePaths order, and only the last request made
\* can be a rejected one.
C11_RequestsInOrderAfterExtraction ==
    /\ calls # <<>> =>
          /\ \A f \in 1..Len(filePaths) : filePaths[f] = "ok"
          /\ data = 1..Len(filePaths)
    /\ Len(calls) <= Len(RequestOrder(Len(filePaths)))
    /\ \A i \in 1..Len(calls) :
          /\ <<calls[i].op, calls[i].file>> = RequestOrder(Len(filePaths))[i]
          /\ i < Len(calls) => ~Rejected(calls[i].status)

\* C11 witness: a run over two files has made all seven requests, and the
\* last one was rejected
C11_Witness ==
    /\ mpc = "done"
    /\ Len(filePaths) = 2
    /\ Len(calls) = Len(RequestOrder(2))
    /\ Rejected(calls[Len(calls)].status)

====
